---- MODULE Spec2Model ----
(***************************************************************************)
(* Model of app.py, a Streamlit script that generates or loads a table,    *)
(* cleans it, normalizes it, adds a scenario feature, extracts numbers     *)
(* from an identifier column, runs a Welch t-test and exports the table.   *)
(*                                                                         *)
(* Strings are sequences of one-character strings, so that substring       *)
(* tests, lower-casing, formatting and the regular expression are          *)
(* computed.  Numbers are exact reduced fractions.  A cell is a record     *)
(* [t, n, d, s]; a column is [name, dtype, vals]; a DataFrame is a         *)
(* sequence of columns.                                                    *)
(***************************************************************************)
EXTENDS Integers, Sequences, FiniteSets, TLC

(* ------------------------------ bounds -------------------------------- *)

\* Rows produced by generate_sample_data (n = 1000 in the source).
NRows == 3

\* Largest number of rows of a table drawn for the table-level specification.
MaxRows == 3

(* --------------------------- program constants ------------------------ *)

\* np.random.seed(42)
SeedValue == 42

(* ------------------------------ strings ------------------------------- *)

UpperChars ==
    <<"A","B","C","D","E","F","G","H","I","J","K","L","M",
      "N","O","P","Q","R","S","T","U","V","W","X","Y","Z">>

LowerChars ==
    <<"a","b","c","d","e","f","g","h","i","j","k","l","m",
      "n","o","p","q","r","s","t","u","v","w","x","y","z">>

DigitChars == <<"0","1","2","3","4","5","6","7","8","9">>

\* str.lower() on one character
LowerChar(ch) ==
    IF \E i \in 1..Len(UpperChars) : UpperChars[i] = ch
    THEN LowerChars[CHOOSE i \in 1..Len(UpperChars) : UpperChars[i] = ch]
    ELSE ch

\* str.lower()
Lower(str) == [i \in 1..Len(str) |-> LowerChar(str[i])]

\* `sub in str`
Contains(str, sub) ==
    \E i \in 0..(Len(str) - Len(sub)) :
        \A j \in 1..Len(sub) : str[i + j] = sub[j]

IsDigit(ch) == \E i \in 1..Len(DigitChars) : DigitChars[i] = ch

DigitVal(ch) == (CHOOSE i \in 1..Len(DigitChars) : DigitChars[i] = ch) - 1

RECURSIVE DigitsOf(_)
\* decimal digits of a natural number, most significant first
DigitsOf(k) ==
    IF k < 10 THEN <<DigitChars[k + 1]>>
    ELSE DigitsOf(k \div 10) \o <<DigitChars[(k % 10) + 1]>>

RECURSIVE ZeroPad(_, _)
ZeroPad(str, width) ==
    IF Len(str) >= width THEN str ELSE ZeroPad(<<"0">> \o str, width)

\* f"{i:04d}"
Format04d(i) == ZeroPad(DigitsOf(i), 4)

\* f"{h:02d}:{m:02d}"
FormatTime(h, m) == ZeroPad(DigitsOf(h), 2) \o <<":">> \o ZeroPad(DigitsOf(m), 2)

RECURSIVE NumberOf(_)
\* value of a nonempty sequence of decimal digits
NumberOf(str) ==
    IF Len(str) = 0 THEN 0
    ELSE 10 * NumberOf(SubSeq(str, 1, Len(str) - 1)) + DigitVal(str[Len(str)])

s_date == <<"d","a","t","e">>
s_id == <<"i","d">>
s_Unknown == <<"U","n","k","n","o","w","n">>
s_ORDER == <<"O","R","D","E","R","-">>
s_AMZ_ORDER == <<"A","M","Z","-","O","R","D","E","R","-">>

c_post_type == <<"p","o","s","t","_","t","y","p","e">>
c_post_date == <<"p","o","s","t","_","d","a","t","e">>
c_likes == <<"l","i","k","e","s">>
c_comments == <<"c","o","m","m","e","n","t","s">>
c_shares == <<"s","h","a","r","e","s">>
c_reach == <<"r","e","a","c","h">>
c_engagement_rate == <<"e","n","g","a","g","e","m","e","n","t","_","r","a","t","e">>
c_order_id == <<"o","r","d","e","r","_","i","d">>
c_store_zone == <<"s","t","o","r","e","_","z","o","n","e">>
c_order_date == <<"o","r","d","e","r","_","d","a","t","e">>
c_items_per_order == <<"i","t","e","m","s","_","p","e","r","_","o","r","d","e","r">>
c_order_value == <<"o","r","d","e","r","_","v","a","l","u","e">>
c_is_weekend == <<"i","s","_","w","e","e","k","e","n","d">>
c_genre == <<"g","e","n","r","e">>
c_view_date == <<"v","i","e","w","_","d","a","t","e">>
c_watch_time_min == <<"w","a","t","c","h","_","t","i","m","e","_","m","i","n">>
c_completion_rate == <<"c","o","m","p","l","e","t","i","o","n","_","r","a","t","e">>
c_delivery_days == <<"d","e","l","i","v","e","r","y","_","d","a","y","s">>
c_on_time == <<"o","n","_","t","i","m","e">>
c_returned == <<"r","e","t","u","r","n","e","d">>
c_customer_rating == <<"c","u","s","t","o","m","e","r","_","r","a","t","i","n","g">>
c_zone == <<"z","o","n","e">>
c_user_id == <<"u","s","e","r","_","i","d">>
c_listen_date == <<"l","i","s","t","e","n","_","d","a","t","e">>
c_listen_time_min == <<"l","i","s","t","e","n","_","t","i","m","e","_","m","i","n">>
c_skips == <<"s","k","i","p","s">>
c_day_of_week == <<"d","a","y","_","o","f","_","w","e","e","k">>
c_extracted_number == <<"e","x","t","r","a","c","t","e","d","_","n","u","m","b","e","r">>

StoreZones ==
    << <<"N","o","r","t","h">>,
       <<"S","o","u","t","h">>,
       <<"E","a","s","t">>,
       <<"W","e","s","t">>,
       <<"C","e","n","t","r","a","l">> >>
SpotifyGenres ==
    << <<"P","o","p">>,
       <<"H","i","p","-","H","o","p">>,
       <<"R","o","c","k">>,
       <<"C","l","a","s","s","i","c","a","l">>,
       <<"J","a","z","z">>,
       <<"E","l","e","c","t","r","o","n","i","c">> >>

(* ------------------------------ numbers ------------------------------- *)

Abs(x) == IF x < 0 THEN -x ELSE x

RECURSIVE Gcd(_, _)
Gcd(a, b) == IF b = 0 THEN a ELSE Gcd(b, a % b)

(* ------------------------------- cells -------------------------------- *)

\* the fraction a/b (b # 0) in lowest terms with a positive denominator
Num(a, b) ==
    LET g == Gcd(Abs(a), Abs(b))
        sg == IF b < 0 THEN -1 ELSE 1
    IN  [t |-> "num", n |-> (sg * a) \div g, d |-> (sg * b) \div g, s |-> <<>>]

IntCell(k) == [t |-> "num", n |-> k, d |-> 1, s |-> <<>>]
NaN == [t |-> "nan", n |-> 0, d |-> 1, s |-> <<>>]
NaT == [t |-> "nat", n |-> 0, d |-> 1, s |-> <<>>]
Inf(sign) == [t |-> "inf", n |-> sign, d |-> 1, s |-> <<>>]
Str(str) == [t |-> "str", n |-> 0, d |-> 1, s |-> str]
Bool(b) == [t |-> "bool", n |-> IF b THEN 1 ELSE 0, d |-> 1, s |-> <<>>]
\* a timestamp at midnight, as whole days since 2024-01-01
Dt(day) == [t |-> "dt", n |-> day, d |-> 1, s |-> <<>>]

IsNum(c) == c.t = "num"
\* pandas isna(): NaN, None and NaT
IsNA(c) == c.t \in {"nan", "nat"}
IsTrue(c) == c.t = "bool" /\ c.n = 1

Sign(k) == IF k > 0 THEN 1 ELSE IF k < 0 THEN -1 ELSE 0

\* float arithmetic on cells holding numbers, NaN or +-inf
Add(x, y) ==
    IF x.t = "nan" \/ y.t = "nan" THEN NaN
    ELSE IF x.t = "inf" /\ y.t = "inf" THEN (IF x.n = y.n THEN x ELSE NaN)
    ELSE IF x.t = "inf" THEN x
    ELSE IF y.t = "inf" THEN y
    ELSE Num(x.n * y.d + y.n * x.d, x.d * y.d)

Neg(x) ==
    IF x.t = "num" THEN Num(-x.n, x.d)
    ELSE IF x.t = "inf" THEN Inf(-x.n)
    ELSE x

Sub(x, y) == Add(x, Neg(y))

Mul(x, y) ==
    IF x.t = "nan" \/ y.t = "nan" THEN NaN
    ELSE IF x.t = "inf" \/ y.t = "inf"
         THEN (IF Sign(x.n) * Sign(y.n) = 0 THEN NaN ELSE Inf(Sign(x.n) * Sign(y.n)))
    ELSE Num(x.n * y.n, x.d * y.d)

\* true division: x / 0 is +-inf, 0 / 0 is NaN
Div(x, y) ==
    IF x.t = "nan" \/ y.t = "nan" THEN NaN
    ELSE IF x.t = "inf" /\ y.t = "inf" THEN NaN
    ELSE IF x.t = "inf" THEN Inf(x.n * (IF y.n < 0 THEN -1 ELSE 1))
    ELSE IF y.t = "inf" THEN IntCell(0)
    ELSE IF y.n = 0 THEN (IF x.n = 0 THEN NaN ELSE Inf(Sign(x.n)))
    ELSE Num(x.n * y.d, x.d * y.n)

\* x < y on numbers and +-inf; every comparison with NaN is false
Less(x, y) ==
    IF x.t = "nan" \/ y.t = "nan" THEN FALSE
    ELSE IF x.t = "inf" /\ y.t = "inf" THEN x.n < y.n
    ELSE IF x.t = "inf" THEN x.n < 0
    ELSE IF y.t = "inf" THEN y.n > 0
    ELSE x.n * y.d < y.n * x.d

Leq(x, y) == Less(x, y) \/ (x.t # "nan" /\ x = y)

\* np.round(x, k): round half to even at k decimals
Round(x, k) ==
    IF x.t # "num" THEN x
    ELSE LET p == IF k = 2 THEN 100 ELSE IF k = 1 THEN 10 ELSE 1
             a == x.n * p
             q == a \div x.d
             r2 == 2 * (a - q * x.d)
             up == r2 > x.d \/ (r2 = x.d /\ q % 2 = 1)
         IN  Num(IF up THEN q + 1 ELSE q, p)

(* ------------------------------ DataFrame ----------------------------- *)

Column(name, dtype, vals) == [name |-> name, dtype |-> dtype, vals |-> vals]

\* `name in df.columns`
HasCol(frame, name) == \E i \in 1..Len(frame) : frame[i].name = name

ColIdx(frame, name) == CHOOSE i \in 1..Len(frame) : frame[i].name = name

\* df[name]
Col(frame, name) == frame[ColIdx(frame, name)]

\* df[name] = values: replaces the column in place, or appends a new one
SetCol(frame, col) ==
    IF HasCol(frame, col.name)
    THEN [frame EXCEPT ![ColIdx(frame, col.name)] = col]
    ELSE Append(frame, col)

\* len(df)
NumRows(frame) == IF Len(frame) = 0 THEN 0 ELSE Len(frame[1].vals)

\* the rows of `frame` whose index is kept by `keep`, in order
RECURSIVE KeepIdx(_, _, _)
KeepIdx(vals, keep, i) ==
    IF i > Len(vals) THEN <<>>
    ELSE (IF keep[i] THEN <<vals[i]>> ELSE <<>>) \o KeepIdx(vals, keep, i + 1)

\* df[mask]
FilterRows(frame, keep) ==
    [c \in 1..Len(frame) |->
        Column(frame[c].name, frame[c].dtype, KeepIdx(frame[c].vals, keep, 1))]

\* select_dtypes(include=[np.number]).columns
IsNumericDtype(dtype) == dtype \in {"int64", "float64"}

RECURSIVE NamesWhere(_, _, _)
NamesWhere(frame, dtypes, i) ==
    IF i > Len(frame) THEN <<>>
    ELSE (IF frame[i].dtype \in dtypes THEN <<frame[i].name>> ELSE <<>>)
         \o NamesWhere(frame, dtypes, i + 1)

(* -------------------- pseudorandom stream (np.random) ----------------- *)

\* The global generator of np.random is modelled as a 16-bit linear
\* congruential generator: one state word, one step per sample drawn.
RngNext(x) == (x * 25173 + 13849) % 65536

RECURSIVE RngAfter(_, _)
\* the state after k samples
RngAfter(x, k) == IF k = 0 THEN x ELSE RngAfter(RngNext(x), k - 1)

\* the generator states a freshly started process may hold
FreshRngStates == {7, 4242}

\* the call without its first line: the generator keeps its state
SeedRngSkipped(x, s) == x

\* np.random.seed(s): the state after seeding depends on s alone
SeedRng(x, s) == (s * 40503) % 65536

\* np.random.randint(lo, hi, n), drawn after `off` earlier samples
RandInt(x, off, lo, hi, n) ==
    [i \in 1..n |-> lo + (RngAfter(x, off + i) * (hi - lo)) \div 65536]

\* np.random.uniform(lo, hi, n)
RandUniform(x, off, lo, hi, n) ==
    [i \in 1..n |-> Add(lo, Mul(Sub(hi, lo), Num(RngAfter(x, off + i), 65536)))]

\* np.random.choice(items, n): a uniform index
Choice(x, off, items, n) ==
    [i \in 1..n |-> items[1 + (RngAfter(x, off + i) * Len(items)) \div 65536]]

\* np.random.choice(items, n, p): the weights are given as cumulative
\* percentages; the index is the number of cumulative weights <= the sample
ChoiceP(x, off, items, cum, n) ==
    [i \in 1..n |->
        items[1 + Cardinality({k \in 1..Len(cum) :
                     cum[k] * 65536 <= RngAfter(x, off + i) * 100})]]

(* ------------------------ generate_sample_data ------------------------ *)

Topics == 1..5

StrCells(strs) == [i \in 1..Len(strs) |-> Str(strs[i])]
IntCells(ints) == [i \in 1..Len(ints) |-> IntCell(ints[i])]

\* [f'{prefix}{i:04d}' for i in range(1, n+1)]
IdColumn(name, prefix, n) ==
    Column(name, "object", [i \in 1..n |-> Str(prefix \o Format04d(i))])

\* np.random.randint(0, 365, n): the day offsets added to the date range
DateOffsets(x, off, n) == RandInt(x, off, 0, 365, n)

\* pd.date_range('2024-01-01', periods=n) + pd.to_timedelta(offsets, unit='D')
DateColumn(name, x, off, n) ==
    Column(name, "datetime64",
           [i \in 1..n |-> Dt((i - 1) + DateOffsets(x, off, n)[i])])

\* [f"{h:02d}:{m:02d}" for h, m in zip(randint(0, 24, n), randint(0, 60, n))]
TimeColumn(name, x, off, n) ==
    Column(name, "object",
           [i \in 1..n |-> Str(FormatTime(RandInt(x, off, 0, 24, n)[i],
                                          RandInt(x, off + n, 0, 60, n)[i]))])

IntColumn(name, ints) == Column(name, "int64", IntCells(ints))

GenInstagram(x, n) ==
    LET types ==
            << <<"P","h","o","t","o">>, <<"V","i","d","e","o">>,
               <<"R","e","e","l">>, <<"S","t","o","r","y">>,
               <<"C","a","r","o","u","s","e","l">> >>
        likes == RandInt(x, 4 * n, 50, 5000, n)
        comments == RandInt(x, 5 * n, 5, 500, n)
        shares == RandInt(x, 6 * n, 1, 1000, n)
        noise == RandInt(x, 7 * n, 100, 10000, n)
        reach == [i \in 1..n |-> likes[i] + comments[i] + shares[i] + noise[i]]
        rate == [i \in 1..n |->
                   Round(Mul(Div(IntCell(likes[i] + comments[i] + shares[i]),
                                 IntCell(reach[i])), IntCell(100)), 2)]
    IN  << IdColumn(<<"p","o","s","t","_","i","d">>, <<"P","O","S","T","-">>, n),
           Column(c_post_type, "object",
                  ChoiceP(x, 0, StrCells(types), <<30, 50, 80, 90, 100>>, n)),
           DateColumn(c_post_date, x, n, n),
           TimeColumn(<<"p","o","s","t","_","t","i","m","e">>, x, 2 * n, n),
           IntColumn(c_likes, likes),
           IntColumn(c_comments, comments),
           IntColumn(c_shares, shares),
           IntColumn(c_reach, reach),
           Column(c_engagement_rate, "float64", rate),
           Column(<<"f","o","l","l","o","w","e","r","s","_","g","r","o","w","t","h">>,
                  "int64",
                  ChoiceP(x, 8 * n, IntCells(<<-10, 0, 5, 10, 20, 50>>),
                          <<5, 25, 55, 75, 90, 100>>, n)) >>

GenMcDonalds(x, n) ==
    LET items ==
            << <<"B","u","r","g","e","r">>, <<"F","r","i","e","s">>,
               <<"B","e","v","e","r","a","g","e">>, <<"C","o","m","b","o">>,
               <<"D","e","s","s","e","r","t">>, <<"S","a","l","a","d">> >>
        dates == DateColumn(c_order_date, x, n, n)
    IN  << IdColumn(c_order_id, s_ORDER, n),
           Column(c_store_zone, "object", Choice(x, 0, StrCells(StoreZones), n)),
           dates,
           TimeColumn(<<"o","r","d","e","r","_","t","i","m","e">>, x, 2 * n, n),
           Column(<<"m","e","n","u","_","i","t","e","m">>, "object",
                  Choice(x, 4 * n, StrCells(items), n)),
           IntColumn(c_items_per_order, RandInt(x, 5 * n, 1, 6, n)),
           Column(c_order_value, "float64",
                  [i \in 1..n |->
                     Round(RandUniform(x, 6 * n, IntCell(100), IntCell(1000), n)[i], 2)]),
           Column(c_is_weekend, "bool",
                  [i \in 1..n |-> Bool(dates.vals[i].n % 7 >= 5)]),
           Column(<<"r","e","p","e","a","t","_","c","u","s","t","o","m","e","r">>,
                  "int64",
                  ChoiceP(x, 7 * n, IntCells(<<0, 1>>), <<60, 100>>, n)) >>

GenNetflix(x, n) ==
    LET genres ==
            << <<"D","r","a","m","a">>, <<"C","o","m","e","d","y">>,
               <<"T","h","r","i","l","l","e","r">>,
               <<"D","o","c","u","m","e","n","t","a","r","y">>,
               <<"A","c","t","i","o","n">>, <<"S","c","i","-","F","i">> >>
        episodes == << <<"1">>, <<"2">>, <<"3">>, <<"4">>, <<"5">>, <<"N","o","n","e">> >>
    IN  << IdColumn(<<"c","o","n","t","e","n","t","_","i","d">>,
                    <<"C","O","N","T","E","N","T","-">>, n),
           Column(c_genre, "object", Choice(x, 0, StrCells(genres), n)),
           DateColumn(c_view_date, x, n, n),
           IntColumn(c_watch_time_min, RandInt(x, 2 * n, 10, 120, n)),
           Column(c_completion_rate, "float64",
                  [i \in 1..n |->
                     Round(RandUniform(x, 3 * n, Num(1, 10), IntCell(1), n)[i], 2)]),
           Column(<<"d","r","o","p","_","o","f","f","_","e","p","i","s","o","d","e">>,
                  "object", Choice(x, 4 * n, StrCells(episodes), n)),
           Column(<<"u","s","e","r","_","r","a","t","i","n","g">>, "float64",
                  [i \in 1..n |->
                     Round(RandUniform(x, 5 * n, IntCell(1), IntCell(5), n)[i], 1)]),
           Column(<<"i","s","_","o","r","i","g","i","n","a","l">>, "int64",
                  ChoiceP(x, 6 * n, IntCells(<<0, 1>>), <<40, 100>>, n)) >>

GenAmazon(x, n) ==
    LET categories ==
            << <<"E","l","e","c","t","r","o","n","i","c","s">>,
               <<"C","l","o","t","h","i","n","g">>, <<"B","o","o","k","s">>,
               <<"H","o","m","e">>, <<"B","e","a","u","t","y">> >>
        zones == << <<"U","r","b","a","n">>, <<"R","u","r","a","l">>,
                    <<"S","u","b","u","r","b","a","n">> >>
    IN  << IdColumn(c_order_id, s_AMZ_ORDER, n),
           Column(<<"c","a","t","e","g","o","r","y">>, "object",
                  Choice(x, 0, StrCells(categories), n)),
           DateColumn(c_order_date, x, n, n),
           IntColumn(c_delivery_days, RandInt(x, 2 * n, 1, 7, n)),
           Column(c_on_time, "int64",
                  ChoiceP(x, 3 * n, IntCells(<<0, 1>>), <<20, 100>>, n)),
           Column(c_returned, "int64",
                  ChoiceP(x, 4 * n, IntCells(<<0, 1>>), <<85, 100>>, n)),
           Column(c_customer_rating, "float64",
                  [i \in 1..n |->
                     Round(RandUniform(x, 5 * n, IntCell(1), IntCell(5), n)[i], 1)]),
           Column(<<"f","u","l","f","i","l","l","m","e","n","t","_","c","o","s","t">>,
                  "float64",
                  [i \in 1..n |->
                     Round(RandUniform(x, 6 * n, IntCell(50), IntCell(500), n)[i], 2)]),
           Column(c_zone, "object", Choice(x, 7 * n, StrCells(zones), n)) >>

GenSpotify(x, n) ==
    LET devices == << <<"M","o","b","i","l","e">>,
                      <<"D","e","s","k","t","o","p">>,
                      <<"T","a","b","l","e","t">> >>
        plans == << <<"F","r","e","e">>, <<"P","r","e","m","i","u","m">> >>
    IN  << IdColumn(c_user_id, <<"U","S","E","R","-">>, n),
           Column(c_genre, "object", Choice(x, 0, StrCells(SpotifyGenres), n)),
           DateColumn(c_listen_date, x, n, n),
           IntColumn(c_listen_time_min, RandInt(x, 2 * n, 5, 60, n)),
           IntColumn(c_skips, RandInt(x, 3 * n, 0, 10, n)),
           Column(<<"s","u","b","s","c","r","i","p","t","i","o","n">>, "object",
                  ChoiceP(x, 4 * n, StrCells(plans), <<60, 100>>, n)),
           Column(<<"d","e","v","i","c","e">>, "object",
                  Choice(x, 5 * n, StrCells(devices), n)),
           Column(<<"c","h","u","r","n">>, "int64",
                  ChoiceP(x, 6 * n, IntCells(<<0, 1>>), <<85, 100>>, n)) >>

\* the number of samples one call draws for a topic
SamplesDrawn(topic, n) ==
    CASE topic = 1 -> 9 * n
      [] topic = 2 -> 8 * n
      [] topic = 3 -> 7 * n
      [] topic = 4 -> 8 * n
      [] topic = 5 -> 7 * n

\* the body of generate_sample_data run from generator state x0: the
\* generator is seeded first, the table is drawn from the seeded state
GenFrame(topic, x0) ==
    LET x == SeedRng(x0, SeedValue)
    IN  CASE topic = 1 -> GenInstagram(x, NRows)
          [] topic = 2 -> GenMcDonalds(x, NRows)
          [] topic = 3 -> GenNetflix(x, NRows)
          [] topic = 4 -> GenAmazon(x, NRows)
          [] topic = 5 -> GenSpotify(x, NRows)

\* the state of the global generator when that call returns
GenRng(topic, x0) == RngAfter(SeedRng(x0, SeedValue), SamplesDrawn(topic, NRows))

(* ------------------------- outcome of a stage ------------------------- *)

\* no exception
NoError == [stage |-> "none", type |-> "none", arg |-> <<>>]

\* an uncaught exception raised in a stage, e.g. KeyError('likes')
Raised(stage, type, arg) == [stage |-> stage, type |-> type, arg |-> arg]

Outcome(frame, err) == [df |-> frame, err |-> err]

(* ---------------------------- Data Cleaning --------------------------- *)

\* df.dropna(how='all'): drop the rows in which every cell is missing
DropNaAll(frame) ==
    FilterRows(frame,
               [i \in 1..NumRows(frame) |->
                   \E c \in 1..Len(frame) : ~IsNA(frame[c].vals[i])])

\* the non-missing values of a column, in ascending order
SortedValues(vals) ==
    SortSeq(KeepIdx(vals, [i \in 1..Len(vals) |-> ~IsNA(vals[i])], 1), Less)

\* Series.median(): skips missing values; NaN when nothing is left
Median(vals) ==
    LET sv == SortedValues(vals)
        k == Len(sv)
    IN  IF k = 0 THEN NaN
        ELSE IF k % 2 = 1 THEN sv[(k + 1) \div 2]
        ELSE Div(Add(sv[k \div 2], sv[k \div 2 + 1]), IntCell(2))

\* fillna(value, limit=1): only the first missing cell is filled
FillNaFirst(vals, value) ==
    [i \in 1..Len(vals) |->
        IF IsNA(vals[i]) /\ ~IsNA(value) /\ \A j \in 1..(i - 1) : ~IsNA(vals[j])
        THEN value ELSE vals[i]]

\* Series.fillna(value): a NaN fill value leaves the missing cells missing
FillNa(vals, value) ==
    [i \in 1..Len(vals) |-> IF IsNA(vals[i]) /\ ~IsNA(value) THEN value ELSE vals[i]]

\* df[numeric_cols] = df[numeric_cols].fillna(df[numeric_cols].median())
FillNumeric(frame) ==
    [c \in 1..Len(frame) |->
        IF IsNumericDtype(frame[c].dtype)
        THEN [frame[c] EXCEPT !.vals = FillNa(frame[c].vals, Median(frame[c].vals))]
        ELSE frame[c]]

\* df[categorical_cols] = df[categorical_cols].fillna('Unknown')
FillCategorical(frame) ==
    [c \in 1..Len(frame) |->
        IF frame[c].dtype = "object"
        THEN [frame[c] EXCEPT !.vals = FillNa(frame[c].vals, Str(s_Unknown))]
        ELSE frame[c]]

\* the cleaning stage on a table
CleanFrame(frame) == FillCategorical(FillNumeric(DropNaAll(frame)))

\* numeric_cols, computed on the table after the empty rows are dropped
NumericCols(frame) == NamesWhere(DropNaAll(frame), {"int64", "float64"}, 1)

(* -------------------- Transformation & Normalization ------------------ *)

\* the column names the `if` of the date block tests for
DateGuardNames == {s_date, c_post_date, c_order_date, c_view_date, c_listen_date}

\* 'date' in df.columns or 'post_date' in df.columns or ...
DateGuard(frame) == \E name \in DateGuardNames : HasCol(frame, name)

\* whether some column name contains `sub`, ignoring case
HasMatch(frame, sub) ==
    \E i \in 1..Len(frame) : Contains(Lower(frame[i].name), sub)

\* next(col for col in df.columns if sub in col.lower())
FirstMatch(frame, sub) ==
    LET i == CHOOSE k \in 1..Len(frame) :
                 /\ Contains(Lower(frame[k].name), sub)
                 /\ \A j \in 1..(k - 1) : ~Contains(Lower(frame[j].name), sub)
    IN  frame[i].name

\* days from 1970-01-01 to the civil date y-m-d
DaysFromCivil(y, m, d) ==
    LET yy == IF m <= 2 THEN y - 1 ELSE y
        era == yy \div 400
        yoe == yy - era * 400
        mp == IF m > 2 THEN m - 3 ELSE m + 9
        doy == (153 * mp + 2) \div 5 + d - 1
        doe == yoe * 365 + yoe \div 4 - yoe \div 100 + doy
    IN  era * 146097 + doe - 719468

DaysInMonth(y, m) ==
    IF m = 2
    THEN (IF y % 4 = 0 /\ (y % 100 # 0 \/ y % 400 = 0) THEN 29 ELSE 28)
    ELSE IF m \in {4, 6, 9, 11} THEN 30 ELSE 31

\* days from 1970-01-01 to 2024-01-01, the origin of Dt
EpochToOrigin == DaysFromCivil(2024, 1, 1)

\* pd.to_datetime(text, errors='coerce') on one string: an ISO date
\* YYYY-MM-DD inside the timestamp range parses, the other strings of the
\* modelled inputs ('Unknown', free text) become NaT
ParseDate(str) ==
    IF /\ Len(str) = 10
       /\ str[5] = "-" /\ str[8] = "-"
       /\ \A i \in {1, 2, 3, 4, 6, 7, 9, 10} : IsDigit(str[i])
    THEN LET y == NumberOf(SubSeq(str, 1, 4))
             m == NumberOf(SubSeq(str, 6, 7))
             d == NumberOf(SubSeq(str, 9, 10))
         IN  IF /\ y >= 1678 /\ y <= 2261
                /\ m >= 1 /\ m <= 12
                /\ d >= 1 /\ d <= DaysInMonth(y, m)
             THEN Dt(DaysFromCivil(y, m, d) - EpochToOrigin)
             ELSE NaT
    ELSE NaT

\* pd.to_datetime on one cell.  A number counts nanoseconds from 1970-01-01;
\* every number of the modelled inputs is less than one day of nanoseconds
\* (8.64e13), so its date is 1970-01-01, or 1969-12-31 when it is negative.
ToDatetimeCell(c) ==
    CASE c.t = "dt" -> c
      [] c.t = "str" -> ParseDate(c.s)
      [] c.t = "num" -> Dt((IF c.n < 0 THEN -1 ELSE 0) - EpochToOrigin)
      [] OTHER -> NaT

\* Series.dt.weekday: Monday is 0; 2024-01-01 is a Monday
Weekday(c) == c.n % 7

\* Series.dt.day_name()
DayNameCell(c) ==
    LET names ==
            << <<"M","o","n","d","a","y">>, <<"T","u","e","s","d","a","y">>,
               <<"W","e","d","n","e","s","d","a","y">>,
               <<"T","h","u","r","s","d","a","y">>, <<"F","r","i","d","a","y">>,
               <<"S","a","t","u","r","d","a","y">>, <<"S","u","n","d","a","y">> >>
    IN  IF c.t = "dt" THEN Str(names[Weekday(c) + 1]) ELSE NaN

\* a weekend flag that stays missing where the date is missing
IsWeekendCellNA(c) == IF c.t = "dt" THEN Bool(Weekday(c) >= 5) ELSE NaN

\* Series.dt.weekday >= 5: the comparison with a missing weekday is False
IsWeekendCell(c) == IF c.t = "dt" THEN Bool(Weekday(c) >= 5) ELSE Bool(FALSE)

\* the date block, run when its guard holds
DateBlock(frame) ==
    LET date_col == FirstMatch(frame, s_date)
        col == Col(frame, date_col)
        parsed == [i \in 1..Len(col.vals) |-> ToDatetimeCell(col.vals[i])]
        f1 == SetCol(frame, Column(date_col, "datetime64", parsed))
        f2 == SetCol(f1, Column(c_day_of_week, "object",
                                [i \in 1..Len(parsed) |-> DayNameCell(parsed[i])]))
        f3 == SetCol(f2, Column(c_is_weekend, "bool",
                                [i \in 1..Len(parsed) |-> IsWeekendCell(parsed[i])]))
    IN  IF col.dtype = "bool"
        THEN Outcome(frame, Raised("date", "TypeError", date_col))
        ELSE Outcome(f3, NoError)

\* lines 126-130: the block is skipped when the guard is false
DateHandling(frame) ==
    IF DateGuard(frame) THEN DateBlock(frame) ELSE Outcome(frame, NoError)

\* Series.max() / Series.min(): missing values are skipped
MaxOf(vals) ==
    LET sv == SortedValues(vals) IN IF Len(sv) = 0 THEN NaN ELSE sv[Len(sv)]

MinOf(vals) ==
    LET sv == SortedValues(vals) IN IF Len(sv) = 0 THEN NaN ELSE sv[1]

\* scaling by the maximum alone: df[col] / df[col].max()
MinMaxScaleByMax(vals) ==
    [i \in 1..Len(vals) |-> Div(vals[i], MaxOf(vals))]

\* (df[col] - df[col].min()) / (df[col].max() - df[col].min())
MinMaxScale(vals) ==
    [i \in 1..Len(vals) |->
        Div(Sub(vals[i], MinOf(vals)), Sub(MaxOf(vals), MinOf(vals)))]

\* f'{col}_normalized'
NormalizedName(name) == name \o <<"_","n","o","r","m","a","l","i","z","e","d">>

RECURSIVE NormalizeFrom(_, _, _)
\* the loop over numeric_cols from position i on.  The list was computed in
\* the cleaning stage; the subtraction and the comparison with 0 raise
\* TypeError on a column that the date block has since turned into
\* datetimes, day names or booleans.
NormalizeFrom(frame, cols, i) ==
    IF i > Len(cols) THEN Outcome(frame, NoError)
    ELSE LET col == Col(frame, cols[i])
         IN  IF ~IsNumericDtype(col.dtype)
             THEN Outcome(frame, Raised("normalize", "TypeError", cols[i]))
             ELSE IF Less(IntCell(0), Sub(MaxOf(col.vals), MinOf(col.vals)))
             THEN NormalizeFrom(
                      SetCol(frame, Column(NormalizedName(cols[i]), "float64",
                                           MinMaxScale(col.vals))),
                      cols, i + 1)
             ELSE NormalizeFrom(frame, cols, i + 1)

(* --------------------------- Feature Engineering ---------------------- *)

\* the columns a topic's formula reads, in the order it reads them
FeatureInputs(topic) ==
    CASE topic = 1 -> <<c_likes, c_comments, c_shares, c_reach>>
      [] topic = 2 -> <<c_order_value, c_items_per_order>>
      [] topic = 3 -> <<c_completion_rate>>
      [] topic = 4 -> <<c_on_time, c_customer_rating, c_returned>>
      [] topic = 5 -> <<c_skips, c_listen_time_min>>

\* the first input the formula cannot read (df[name] raises KeyError) or
\* cannot compute with (TypeError); the modelled inputs hold feature
\* columns of dtype int64 or float64 only
FeatureError(frame, names) ==
    IF \E i \in 1..Len(names) :
          ~HasCol(frame, names[i]) \/ ~IsNumericDtype(Col(frame, names[i]).dtype)
    THEN LET i == CHOOSE k \in 1..Len(names) :
                     /\ ~HasCol(frame, names[k])
                        \/ ~IsNumericDtype(Col(frame, names[k]).dtype)
                     /\ \A j \in 1..(k - 1) :
                           /\ HasCol(frame, names[j])
                           /\ IsNumericDtype(Col(frame, names[j]).dtype)
         IN  IF HasCol(frame, names[i])
             THEN Raised("feature", "TypeError", names[i])
             ELSE Raised("feature", "KeyError", names[i])
    ELSE NoError

\* the column a topic's formula assigns
FeatureColumn(frame, topic) ==
    LET v(name) == Col(frame, name).vals
        rows == 1..NumRows(frame)
        allInt(names) == \A i \in 1..Len(names) : Col(frame, names[i]).dtype = "int64"
    IN  CASE topic = 1 ->
               Column(c_engagement_rate, "float64",
                      [i \in rows |->
                          Div(Add(Add(v(c_likes)[i], v(c_comments)[i]), v(c_shares)[i]),
                              v(c_reach)[i])])
          [] topic = 2 ->
               Column(<<"a","v","g","_","i","t","e","m","_","v","a","l","u","e">>, "float64",
                      [i \in rows |-> Div(v(c_order_value)[i], v(c_items_per_order)[i])])
          [] topic = 3 ->
               Column(<<"r","e","t","e","n","t","i","o","n","_","c","a","t","e","g","o","r","y">>, "object",
                      [i \in rows |->
                          IF Less(Num(8, 10), v(c_completion_rate)[i])
                          THEN Str(<<"H","i","g","h">>) ELSE Str(<<"L","o","w">>)])
          [] topic = 4 ->
               Column(<<"s","a","t","i","s","f","a","c","t","i","o","n","_","s","c","o","r","e">>,
                      IF allInt(FeatureInputs(4)) THEN "int64" ELSE "float64",
                      [i \in rows |->
                          Sub(Mul(v(c_on_time)[i], v(c_customer_rating)[i]),
                              v(c_returned)[i])])
          [] topic = 5 ->
               Column(<<"s","k","i","p","_","r","a","t","e">>, "float64",
                      [i \in rows |-> Div(v(c_skips)[i], v(c_listen_time_min)[i])])

\* lines 142-151
FeatureEngineering(frame, topic) ==
    LET err == FeatureError(frame, FeatureInputs(topic))
    IN  IF err.type # "none" THEN Outcome(frame, err)
        ELSE Outcome(SetCol(frame, FeatureColumn(frame, topic)), NoError)

(* ------------------------------ Regex Example ------------------------- *)

\* re.search(r'(\d+)', text).group(1): the first maximal run of digits
FirstDigitRun(str) ==
    LET a == CHOOSE k \in 1..Len(str) :
                 IsDigit(str[k]) /\ \A j \in 1..(k - 1) : ~IsDigit(str[j])
        b == CHOOSE k \in a..Len(str) :
                 /\ \A j \in a..k : IsDigit(str[j])
                 /\ (k = Len(str) \/ ~IsDigit(str[k + 1]))
    IN  SubSeq(str, a, b)

\* Series.str.extract(r'(\d+)', expand=False) on one cell
ExtractCell(c) ==
    IF c.t = "str" /\ \E k \in 1..Len(c.s) : IsDigit(c.s[k])
    THEN Str(FirstDigitRun(c.s))
    ELSE NaN

\* lines 157-161: the .str accessor raises AttributeError on a column
\* whose dtype is not object
RegexExample(frame) ==
    IF ~HasMatch(frame, s_id) THEN Outcome(frame, NoError)
    ELSE LET id_col == FirstMatch(frame, s_id)
             col == Col(frame, id_col)
         IN  IF col.dtype # "object"
             THEN Outcome(frame, Raised("regex", "AttributeError", id_col))
             ELSE Outcome(
                      SetCol(frame,
                             Column(c_extracted_number, "object",
                                    [i \in 1..Len(col.vals) |-> ExtractCell(col.vals[i])])),
                      NoError)

(* --------------------------- Hypothesis Testing ----------------------- *)

\* no test was run
NoTest == [ran |-> FALSE, n_weekend |-> 0, n_weekday |-> 0,
           t_kind |-> "none", t_sign |-> 0, p_kind |-> "none"]

\* 'is_weekend' in df.columns and 'order_value' in df.columns
TestGuard(frame) == HasCol(frame, c_is_weekend) /\ HasCol(frame, c_order_value)

\* df[df['is_weekend']]['order_value']
WeekendSample(frame) ==
    KeepIdx(Col(frame, c_order_value).vals,
            [i \in 1..NumRows(frame) |-> IsTrue(Col(frame, c_is_weekend).vals[i])], 1)

\* df[~df['is_weekend']]['order_value']
WeekdaySample(frame) ==
    KeepIdx(Col(frame, c_order_value).vals,
            [i \in 1..NumRows(frame) |-> ~IsTrue(Col(frame, c_is_weekend).vals[i])], 1)

RECURSIVE SumCells(_, _)
SumCells(vals, i) ==
    IF i > Len(vals) THEN IntCell(0) ELSE Add(vals[i], SumCells(vals, i + 1))

Mean(vals) == Div(SumCells(vals, 1), IntCell(Len(vals)))

\* whether the sample variance (ddof = 1) of a sample of 2 or more
\* numbers is zero
ZeroVariance(vals) == \A i \in 1..Len(vals) : vals[i] = vals[1]

\* stats.ttest_ind(a, b, equal_var=False).  The statistic is kept as its
\* kind (NaN, +-inf, finite) and its sign, the p-value as its kind (NaN, 0,
\* a number in (0, 1]).  Nothing is raised: a missing value, or a sample
\* with fewer than 2 observations (which has no variance), gives a NaN
\* statistic and a NaN p-value; two samples without variance give
\* 0/0 = NaN or +-inf.
TTestInd(a, b) ==
    LET undefined == \/ Len(a) < 2 \/ Len(b) < 2
                     \/ \E i \in 1..Len(a) : ~IsNum(a[i])
                     \/ \E i \in 1..Len(b) : ~IsNum(b[i])
        diff == Sub(Mean(a), Mean(b))
        flat == ZeroVariance(a) /\ ZeroVariance(b)
        kind == IF undefined \/ (flat /\ diff.n = 0) THEN "nan"
                ELSE IF flat THEN "inf" ELSE "finite"
    IN  [ran |-> TRUE, n_weekend |-> Len(a), n_weekday |-> Len(b),
         t_kind |-> kind,
         t_sign |-> IF kind = "nan" THEN 0 ELSE Sign(diff.n),
         p_kind |-> CASE kind = "nan" -> "nan"
                      [] kind = "inf" -> "zero"
                      [] kind = "finite" -> "finite"]

\* lines 165-173: boolean indexing needs a bool column (anything else is
\* looked up as column labels: KeyError); the test needs numbers
HypothesisTesting(frame) ==
    IF ~TestGuard(frame) THEN [res |-> NoTest, err |-> NoError]
    ELSE IF Col(frame, c_is_weekend).dtype # "bool"
    THEN [res |-> NoTest, err |-> Raised("test", "KeyError", c_is_weekend)]
    ELSE IF ~IsNumericDtype(Col(frame, c_order_value).dtype)
    THEN [res |-> NoTest, err |-> Raised("test", "TypeError", c_order_value)]
    ELSE [res |-> TTestInd(WeekendSample(frame), WeekdaySample(frame)),
          err |-> NoError]

(* ------------------ Visualizations & Business Insights ---------------- *)

\* the columns a topic's chart groups by and plots
ChartInputs(topic) ==
    CASE topic = 1 -> <<c_post_type, c_engagement_rate>>
      [] topic = 2 -> <<c_store_zone, c_order_value>>
      [] topic = 3 -> <<c_genre, c_watch_time_min>>
      [] topic = 4 -> <<c_zone, c_delivery_days>>
      [] topic = 5 -> <<c_genre, c_listen_time_min>>

\* lines 178-197: a chart over an absent column raises (KeyError from
\* groupby, ValueError from the box plot); the mean of a non-numeric
\* column raises TypeError
Visualization(frame, topic) ==
    LET names == ChartInputs(topic)
    IN  IF ~HasCol(frame, names[1])
        THEN Raised("viz", IF topic \in {2, 4} THEN "ValueError" ELSE "KeyError", names[1])
        ELSE IF ~HasCol(frame, names[2])
        THEN Raised("viz", IF topic \in {2, 4} THEN "ValueError" ELSE "KeyError", names[2])
        ELSE IF topic \in {1, 3, 5} /\ ~IsNumericDtype(Col(frame, names[2]).dtype)
        THEN Raised("viz", "TypeError", names[2])
        ELSE NoError

(* ----------------------------- uploaded files ------------------------- *)

\* st.file_uploader returned None
NoFile == <<>>

\* the text of an ISO date, as a CSV holds it
IsoDate(y, m, d) ==
    ZeroPad(DigitsOf(y), 4) \o <<"-">> \o ZeroPad(DigitsOf(m), 2)
        \o <<"-">> \o ZeroPad(DigitsOf(d), 2)

s_not_available == <<"n","/","a">>
s_NOID == <<"N","O","I","D">>

Saturday == Str(IsoDate(2024, 1, 6))
Sunday == Str(IsoDate(2024, 1, 7))
Monday == Str(IsoDate(2024, 1, 8))
Tuesday == Str(IsoDate(2024, 1, 9))

North == Str(StoreZones[1])
South == Str(StoreZones[2])

\* [f'ORDER-{i:04d}'] for the n rows after row `from`
OrderIds(from, n) == [i \in 1..n |-> Str(s_ORDER \o Format04d(from + i))]

\* pd.read_csv of a sales file: identifiers, zones, dates kept as text
\* (dtype object; an empty field is NaN), item counts and values
SalesUpload(ids, zones, date_name, dates, items, values) ==
    << Column(c_order_id, "object", ids),
       Column(c_store_zone, "object", zones),
       Column(date_name, "object", dates),
       Column(c_items_per_order,
              IF \E i \in 1..Len(items) : IsNA(items[i]) THEN "float64" ELSE "int64",
              items),
       Column(c_order_value, "float64", values) >>

\* five orders, two on a weekend; one date unreadable, one value empty
UploadFiveOrders ==
    SalesUpload(OrderIds(426, 5), <<North, South, North, South, North>>,
                c_order_date,
                <<Saturday, Sunday, Monday, Tuesday, Str(s_not_available)>>,
                IntCells(<<1, 2, 3, 1, 2>>),
                <<IntCell(10), IntCell(20), IntCell(30), NaN, IntCell(50)>>)

\* one weekend order; an empty row; empty dates; identifiers without digits
UploadGaps ==
    SalesUpload(<<Str(s_NOID), NaN, Str(s_AMZ_ORDER \o Format04d(7)), Str(s_NOID)>>,
                <<North, NaN, NaN, South>>,
                c_order_date,
                <<Saturday, NaN, Monday, NaN>>,
                <<IntCell(2), NaN, IntCell(4), IntCell(0)>>,
                <<Num(5, 2), NaN, Num(5, 2), Num(5, 2)>>)

\* the date column is named Date
UploadDate ==
    SalesUpload(OrderIds(0, 2), <<North, South>>, <<"D","a","t","e">>, <<Saturday, Monday>>,
                IntCells(<<1, 2>>), <<IntCell(10), IntCell(30)>>)

\* the date column is named signup_date
UploadSignupDate ==
    SalesUpload(OrderIds(0, 2), <<North, South>>,
                <<"s","i","g","n","u","p","_","d","a","t","e">>, <<Sunday, Tuesday>>,
                IntCells(<<3, 3>>), <<IntCell(7), IntCell(9)>>)

\* a sales file without the item count and the zone
UploadNoItems ==
    << Column(c_order_id, "object", OrderIds(0, 2)),
       Column(c_order_date, "object", <<Saturday, Sunday>>),
       Column(c_order_value, "float64", <<IntCell(10), IntCell(20)>>) >>

\* dates written as the integers 20240106, 20240108
UploadIntegerDates ==
    << Column(c_order_id, "object", OrderIds(0, 2)),
       Column(c_order_value, "float64", <<IntCell(10), IntCell(20)>>),
       Column(c_order_date, "int64", IntCells(<<20240106, 20240108>>)) >>

\* a True/False column whose name contains "date", before the date column
UploadValidated ==
    << Column(c_order_id, "object", OrderIds(0, 2)),
       Column(<<"v","a","l","i","d","a","t","e","d">>, "bool", <<Bool(TRUE), Bool(FALSE)>>),
       Column(c_order_date, "object", <<Saturday, Monday>>) >>

\* a listening file whose user identifiers are integers
UploadListening ==
    << Column(c_user_id, "int64", IntCells(<<101, 102, 103>>)),
       Column(c_genre, "object", StrCells(<<SpotifyGenres[1], SpotifyGenres[3],
                                            SpotifyGenres[1]>>)),
       Column(c_listen_date, "object", <<Saturday, Monday, Tuesday>>),
       Column(c_listen_time_min, "int64", IntCells(<<30, 0, 45>>)),
       Column(c_skips, "int64", IntCells(<<3, 0, 9>>)) >>

\* the tables pd.read_csv may return for the uploaded file
Uploads ==
    { UploadFiveOrders, UploadGaps, UploadDate, UploadSignupDate, UploadNoItems,
      UploadIntegerDates, UploadValidated, UploadListening }

(* ------------------------------- the script --------------------------- *)

VARIABLES
    case_study,     \* the topic chosen in the selectbox, 1..5
    uploaded_file,  \* the uploaded table, or NoFile
    df,             \* the DataFrame the script works on
    numeric_cols,   \* the numeric column names found by the cleaning stage
    date_col,       \* the date column found by the date block, <<>> if none
    test,           \* the result of the t-test
    error,          \* the exception that ended the run, or NoError
    pc,             \* the stage the script is about to run
    rng,            \* the state of the global generator of np.random
    cache           \* st.cache_data: topic -> cached table, <<>> if absent

vars == <<case_study, uploaded_file, df, numeric_cols, date_col, test, error,
          pc, rng, cache>>

\* a process starts with an empty cache and an unseeded generator; the
\* first run of the script starts with any topic and file
Init ==
    /\ case_study \in Topics
    /\ uploaded_file \in Uploads \cup {NoFile}
    /\ df = <<>>
    /\ numeric_cols = <<>>
    /\ date_col = <<>>
    /\ test = NoTest
    /\ error = NoError
    /\ pc = "load"
    /\ rng \in FreshRngStates
    /\ cache = [topic \in Topics |-> <<>>]

\* a stage that raised ends the run; otherwise the next stage follows
Continue(err, next) ==
    /\ error' = err
    /\ pc' = IF err.type = "none" THEN next ELSE "aborted"

\* line 110: df = pd.read_csv(uploaded_file)
ReadCsv ==
    /\ pc = "load"
    /\ uploaded_file # NoFile
    /\ df' = uploaded_file
    /\ pc' = "clean"
    /\ UNCHANGED <<case_study, uploaded_file, numeric_cols, date_col, test,
                   error, rng, cache>>

\* line 112 on a cache miss: the body of generate_sample_data runs
GenerateSampleData ==
    /\ pc = "load"
    /\ uploaded_file = NoFile
    /\ cache[case_study] = <<>>
    /\ df' = GenFrame(case_study, rng)
    /\ rng' = GenRng(case_study, rng)
    /\ cache' = [cache EXCEPT ![case_study] = GenFrame(case_study, rng)]
    /\ pc' = "clean"
    /\ UNCHANGED <<case_study, uploaded_file, numeric_cols, date_col, test, error>>

\* line 112 on a cache hit: a copy of the cached table is returned
CachedSampleData ==
    /\ pc = "load"
    /\ uploaded_file = NoFile
    /\ cache[case_study] # <<>>
    /\ df' = cache[case_study]
    /\ pc' = "clean"
    /\ UNCHANGED <<case_study, uploaded_file, numeric_cols, date_col, test,
                   error, rng, cache>>

\* lines 117-122
DataCleaning ==
    /\ pc = "clean"
    /\ df' = CleanFrame(df)
    /\ numeric_cols' = NumericCols(df)
    /\ pc' = "date"
    /\ UNCHANGED <<case_study, uploaded_file, date_col, test, error, rng, cache>>

\* lines 126-130
Transformation ==
    /\ pc = "date"
    /\ df' = DateHandling(df).df
    /\ date_col' = IF DateGuard(df) THEN FirstMatch(df, s_date) ELSE date_col
    /\ Continue(DateHandling(df).err, "normalize")
    /\ UNCHANGED <<case_study, uploaded_file, numeric_cols, test, rng, cache>>

\* lines 133-135
Normalization ==
    /\ pc = "normalize"
    /\ df' = NormalizeFrom(df, numeric_cols, 1).df
    /\ Continue(NormalizeFrom(df, numeric_cols, 1).err, "feature")
    /\ UNCHANGED <<case_study, uploaded_file, numeric_cols, date_col, test,
                   rng, cache>>

\* lines 142-151
Features ==
    /\ pc = "feature"
    /\ df' = FeatureEngineering(df, case_study).df
    /\ Continue(FeatureEngineering(df, case_study).err, "regex")
    /\ UNCHANGED <<case_study, uploaded_file, numeric_cols, date_col, test,
                   rng, cache>>

\* lines 157-161
Regex ==
    /\ pc = "regex"
    /\ df' = RegexExample(df).df
    /\ Continue(RegexExample(df).err, "test")
    /\ UNCHANGED <<case_study, uploaded_file, numeric_cols, date_col, test,
                   rng, cache>>

\* lines 165-173
Hypothesis ==
    /\ pc = "test"
    /\ test' = HypothesisTesting(df).res
    /\ Continue(HypothesisTesting(df).err, "viz")
    /\ UNCHANGED <<case_study, uploaded_file, df, numeric_cols, date_col,
                   rng, cache>>

\* lines 178-197
Charts ==
    /\ pc = "viz"
    /\ Continue(Visualization(df, case_study), "download")
    /\ UNCHANGED <<case_study, uploaded_file, df, numeric_cols, date_col, test,
                   rng, cache>>

\* lines 202-203: the table is serialized and offered for download
Download ==
    /\ pc = "download"
    /\ pc' = "done"
    /\ UNCHANGED <<case_study, uploaded_file, df, numeric_cols, date_col, test,
                   error, rng, cache>>

\* the user changes the topic or the file: Streamlit runs the script again
\* from the top, in the same process (same cache, same global generator)
Rerun ==
    /\ pc \in {"done", "aborted"}
    /\ case_study' \in Topics
    /\ uploaded_file' \in Uploads \cup {NoFile}
    /\ df' = <<>>
    /\ numeric_cols' = <<>>
    /\ date_col' = <<>>
    /\ test' = NoTest
    /\ error' = NoError
    /\ pc' = "load"
    /\ UNCHANGED <<rng, cache>>

Next ==
    \/ ReadCsv
    \/ GenerateSampleData
    \/ CachedSampleData
    \/ DataCleaning
    \/ Transformation
    \/ Normalization
    \/ Features
    \/ Regex
    \/ Hypothesis
    \/ Charts
    \/ Download
    \/ Rerun

Spec == Init /\ [][Next]_vars

(* ---------------- the cleaning and normalization stages --------------- *)
(* on every small table of a text date column and a float value column   *)

FamilyDates == {NaN, Saturday, Str(s_not_available)}

FamilyValues == {NaN, IntCell(-1), IntCell(2), IntCell(4)}

\* the uploaded tables of 1..MaxRows rows over these cells
TableFamily ==
    UNION { { << Column(c_order_date, "object", dates),
                 Column(c_order_value, "float64", values) >> :
                dates \in [1..k -> FamilyDates], values \in [1..k -> FamilyValues] } :
            k \in 1..MaxRows }

InitTable ==
    /\ case_study = 2
    /\ uploaded_file \in TableFamily
    /\ df = <<>>
    /\ numeric_cols = <<>>
    /\ date_col = <<>>
    /\ test = NoTest
    /\ error = NoError
    /\ pc = "load"
    /\ rng = CHOOSE x \in FreshRngStates : TRUE
    /\ cache = [topic \in Topics |-> <<>>]

NextTable ==
    \/ ReadCsv
    \/ DataCleaning
    \/ Transformation
    \/ Normalization

SpecTable == InitTable /\ [][NextTable]_vars

(* ------------------------------ properties ----------------------------- *)

\* the date block has run: the date column is parsed, the two columns exist
DateBlockRan ==
    /\ date_col # <<>>
    /\ HasCol(df, c_day_of_week)
    /\ HasCol(df, c_is_weekend)
    /\ Col(df, FirstMatch(df, s_date)).dtype = "datetime64"

\* C1: after the date stage, the first column whose name contains "date"
\* in any letter case is parsed and day_of_week and is_weekend are added
\* whenever such a column exists; the stage is skipped only when no column
\* name contains "date".
C1_DateColumnAlwaysHandled ==
    pc = "normalize" => (HasMatch(df, s_date) <=> DateBlockRan)

\* C2: a feature formula that needs an absent column never ends the run:
\* the run does not stop on the KeyError of the feature stage.
C2_MissingColumnDoesNotAbort ==
    pc = "aborted" => ~(error.stage = "feature" /\ error.type = "KeyError")

\* C3: on generated data, every column of the generated table is still
\* present after feature engineering with the values it had after cleaning.
C3_SourceColumnsKept ==
    (pc = "regex" /\ uploaded_file = NoFile) =>
        LET cleaned == CleanFrame(cache[case_study])
        IN  \A i \in 1..Len(cleaned) :
                /\ HasCol(df, cleaned[i].name)
                /\ Col(df, cleaned[i].name).vals = cleaned[i].vals

AllEqual(vals) == \A i, j \in 1..Len(vals) : vals[i] = vals[j]

C5_SmallPartitionRejected ==
    test.ran => (test.n_weekend >= 2 /\ test.n_weekday >= 2)

\* C6: the identifier-extraction stage never ends in an error, and when it
\* has run on an id column every row holds the first run of digits of its
\* identifier, or a missing value.
C6_ExtractionNeverFails ==
    /\ pc = "aborted" => error.stage # "regex"
    /\ (pc = "test" /\ HasMatch(df, s_id)) =>
           /\ HasCol(df, c_extracted_number)
           /\ \A i \in 1..NumRows(df) :
                 Col(df, c_extracted_number).vals[i].t \in {"str", "nan"}

\* C7: in a generated table each date is 2024-01-01 plus the row's sampled
\* offset of 0..364 days, whatever the row's index.
C7_DateIsBasePlusOffset ==
    (pc = "clean" /\ uploaded_file = NoFile) =>
        \A i \in 1..NRows :
            LET cell == Col(df, FirstMatch(df, s_date)).vals[i]
            IN  /\ cell = Dt(DateOffsets(SeedRng(rng, SeedValue), NRows, NRows)[i])
                /\ cell.n >= 0 /\ cell.n <= 364

\* C8: cleaning a cleaned table drops no row and changes no cell.
C8_CleanIdempotent ==
    pc = "date" => CleanFrame(df) = df

\* a cleaned table that lost an empty row and had a date and a value filled
C8_Witness ==
    /\ pc = "date"
    /\ NumRows(df) < NumRows(uploaded_file)
    /\ \E i \in 1..NumRows(df) : Col(df, c_order_date).vals[i] = Str(s_Unknown)
    /\ Cardinality({i \in 1..NumRows(df) : IsNum(Col(df, c_order_value).vals[i])})
          > Cardinality({i \in 1..NumRows(uploaded_file) :
                            IsNum(Col(uploaded_file, c_order_value).vals[i])})

\* C9: the table generate_sample_data returns for a topic is the table a
\* fresh process returns for it, whatever calls came before.
C9_GeneratorDeterministic ==
    (pc = "clean" /\ uploaded_file = NoFile) =>
        \A x \in FreshRngStates : df = GenFrame(case_study, x)

\* a generated table returned after tables of two other topics were drawn
C9_Witness ==
    /\ pc = "clean"
    /\ uploaded_file = NoFile
    /\ rng \notin FreshRngStates
    /\ Cardinality({topic \in Topics : cache[topic] # <<>>}) >= 3

\* C10: once the date block has run, is_weekend is a boolean in every row;
\* a row whose date is missing has a missing day_of_week and is_weekend
\* False, and the two partitions of the t-test cover all rows.
C10_WeekendFlagDefinite ==
    (date_col # <<>> /\ pc \notin {"load", "clean", "date"} /\ error.stage # "date") =>
        /\ HasCol(df, c_is_weekend)
        /\ \A i \in 1..NumRows(df) :
              /\ Col(df, c_is_weekend).vals[i].t = "bool"
              /\ Col(df, date_col).vals[i] = NaT =>
                    /\ Col(df, c_day_of_week).vals[i] = NaN
                    /\ Col(df, c_is_weekend).vals[i] = Bool(FALSE)
        /\ test.ran => test.n_weekend + test.n_weekday = NumRows(df)

\* a t-test run on a table with an unreadable date
C10_Witness ==
    /\ test.ran
    /\ date_col # <<>>
    /\ \E i \in 1..NumRows(df) : Col(df, date_col).vals[i] = NaT
    /\ test.n_weekend > 0

====
